---- MODULE Spec2Model ----
\* Model of flask-demograder's per-request context construction:
\* demograder/context.py (Role, the _set_*_context resolvers, get_context)
\* and the older get_context of demograder/routes.py.
EXTENDS Integers, Sequences, FiniteSets, TLC

VARIABLES
    entry,      \* which get_context the request calls: "context" or "routes"
    session,    \* flask.session, a dict
    url_args,   \* request.args.to_dict(), a dict (mutated by _set_role_context)
    kwargs,     \* the keyword arguments of get_context, a dict
    context,    \* the context dict under construction
    calls,      \* the resolvers called so far, in order
    teaching,   \* answers of User.teaching read so far: <<user, course>> -> bool
    taking,     \* answers of User.taking read so far: <<user, course>> -> bool
    pc,         \* the line of get_context about to run, or "done"
    outcome     \* "running", "returned", "abort401", "abort403" or an exception

vars == <<entry, session, url_args, kwargs, context, calls, teaching, taking, pc, outcome>>

----------------------------------------------------------------------------
\* Bounds of the data the requests run against.

NumUsers == 4
NumCourses == 1

----------------------------------------------------------------------------
\* Python values.

None == 0

Truthy(v) == v # None

EmptyDict == <<>>

Get(d, k, default) == IF k \in DOMAIN d THEN d[k] ELSE default

Set(d, k, v) == (k :> v) @@ d

Del(d, k) == [x \in DOMAIN d \ {k} |-> d[x]]

Min(a, b) == IF a <= b THEN a ELSE b

LowerAlphabet ==
    <<"a", "b", "c", "d", "e", "f", "g", "h", "i", "j", "k", "l", "m",
      "n", "o", "p", "q", "r", "s", "t", "u", "v", "w", "x", "y", "z">>

UpperAlphabet ==
    <<"A", "B", "C", "D", "E", "F", "G", "H", "I", "J", "K", "L", "M",
      "N", "O", "P", "Q", "R", "S", "T", "U", "V", "W", "X", "Y", "Z">>

\* str.upper on one character: a lower-case letter maps to its capital,
\* anything else is kept.
UpperChar(c) ==
    IF \E i \in 1..Len(LowerAlphabet) : LowerAlphabet[i] = c
    THEN UpperAlphabet[CHOOSE i \in 1..Len(LowerAlphabet) : LowerAlphabet[i] = c]
    ELSE c

\* str.upper; a string is the tuple of its characters.
Upper(s) == [i \in 1..Len(s) |-> UpperChar(s[i])]

----------------------------------------------------------------------------
\* class Role(IntEnum)

STUDENT == 0
INSTRUCTOR == 1
FACULTY == 2
ADMIN == 3

\* Role.__members__ / Role[name]: member name -> member.
Role ==
    (<<"S", "T", "U", "D", "E", "N", "T">> :> STUDENT)
    @@ (<<"I", "N", "S", "T", "R", "U", "C", "T", "O", "R">> :> INSTRUCTOR)
    @@ (<<"F", "A", "C", "U", "L", "T", "Y">> :> FACULTY)
    @@ (<<"A", "D", "M", "I", "N">> :> ADMIN)

\* The string literals of context.py.
str_student == <<"s", "t", "u", "d", "e", "n", "t">>
str_instructor == <<"i", "n", "s", "t", "r", "u", "c", "t", "o", "r">>
str_faculty == <<"f", "a", "c", "u", "l", "t", "y">>
str_admin == <<"a", "d", "m", "i", "n">>

\* A min_role argument is either a str or a Role member.
StrValue(s) == [type |-> "str", value |-> 0, text |-> s]
RoleValue(r) == [type |-> "Role", value |-> r, text |-> <<>>]

----------------------------------------------------------------------------
\* The stored data (models.User, models.Course), read-only during a request.
\* A row is referred to by its id; None is no row.

UserIds == 1..NumUsers
CourseIds == 1..NumCourses

Email(i) == "u" \o ToString(i) \o "@x.edu"

\* The four combinations of the two privilege flags occur among ids 1..4:
\* 1 admin, 2 faculty, 3 admin and faculty, 4 neither.
users ==
    [i \in UserIds |->
        [id |-> i, email |-> Email(i), admin |-> i % 2 = 1, faculty |-> (i \div 2) % 2 = 1]]

\* User.query.filter_by(email=e).first()
UserByEmail(e) ==
    IF \E i \in UserIds : users[i].email = e
    THEN CHOOSE i \in UserIds : users[i].email = e
    ELSE None

\* Course.query.filter_by(id=c).first()
CourseById(c) == IF c \in CourseIds THEN c ELSE None

\* The module-level names of context.py (imports, the class, the functions).
ModuleNames ==
    {"IntEnum", "session", "request", "abort", "User", "Course", "Role",
     "_set_user_context", "_set_viewer_context", "_set_course_context",
     "_set_instructor_context", "_set_student_context", "_set_role_context",
     "get_context"}

----------------------------------------------------------------------------
\* The resolvers of context.py, each as the dict it leaves behind.

\* session.get('user_email'); an absent key reads as the string "None",
\* which is the email of no user.
SessionEmail(sess) == Get(sess, "user_email", "None")

set_user_context(ctx, sess) ==
    Set(ctx, "user", UserByEmail(SessionEmail(sess)))

\* set_viewer_context with the admin test of line 24 left out.
set_viewer_context_any_user(ctx, args) ==
    LET c1 == IF "viewer" \in DOMAIN args
              THEN Set(ctx, "viewer", UserByEmail(args["viewer"]))
              ELSE ctx
        c2 == IF ~Truthy(Get(c1, "viewer", None))
              THEN Set(c1, "viewer", c1["user"])
              ELSE c1
    IN  Set(c2, "alternate_view", c2["user"] # c2["viewer"])

set_viewer_context(ctx, args) ==
    LET c1 == IF users[ctx["user"]].admin /\ "viewer" \in DOMAIN args
              THEN Set(ctx, "viewer", UserByEmail(args["viewer"]))
              ELSE ctx
        c2 == IF ~Truthy(Get(c1, "viewer", None))
              THEN Set(c1, "viewer", c1["user"])
              ELSE c1
    IN  Set(c2, "alternate_view", c2["user"] # c2["viewer"])

set_course_context(ctx, kw) ==
    IF "course_id" \in DOMAIN kw
    THEN Set(ctx, "course", CourseById(kw["course_id"]))
    ELSE ctx

\* teaches is the answer of viewer.teaching(course), read only on the elif.
set_instructor_context(ctx, teaches) ==
    IF users[ctx["viewer"]].admin
    THEN Set(ctx, "instructor", TRUE)
    ELSE IF Truthy(Get(ctx, "course", None))
    THEN Set(ctx, "instructor", teaches[<<ctx["viewer"], ctx["course"]>>])
    ELSE Set(ctx, "instructor", FALSE)

\* set_student_context given the admin short-circuit of set_instructor_context.
set_student_context_admin(ctx, takes) ==
    IF users[ctx["viewer"]].admin
    THEN Set(ctx, "student", TRUE)
    ELSE IF Truthy(Get(ctx, "course", None))
    THEN Set(ctx, "student", takes[<<ctx["viewer"], ctx["course"]>>])
    ELSE Set(ctx, "student", FALSE)

\* takes is the answer of viewer.taking(course).
set_student_context(ctx, takes) ==
    IF Truthy(Get(ctx, "course", None))
    THEN Set(ctx, "student", takes[<<ctx["viewer"], ctx["course"]>>])
    ELSE Set(ctx, "student", FALSE)

\* Lines 56-57: an unrecognised role name is deleted from url_args.
role_args(args) ==
    IF "role" \in DOMAIN args /\ Upper(args["role"]) \notin DOMAIN Role
    THEN Del(args, "role")
    ELSE args

\* clamp_role without the min(): the requested role is taken as it is.
clamp_role_unclamped(ctx, args, default, ceiling) ==
    LET role == Role[Upper(Get(args, "role", default))]
    IN  Set(Set(ctx, "role", role),
            "alternate_view", ctx["alternate_view"] \/ (role # ceiling))

\* clamp_role that leaves alternate_view as _set_viewer_context set it.
clamp_role_keep_flag(ctx, args, default, ceiling) ==
    LET role == Min(Role[Upper(Get(args, "role", default))], ceiling)
    IN  Set(ctx, "role", role)

\* One branch of lines 58-75: clamp the requested (or default) role.
clamp_role(ctx, args, default, ceiling) ==
    LET role == Min(Role[Upper(Get(args, "role", default))], ceiling)
    IN  Set(Set(ctx, "role", role),
            "alternate_view", ctx["alternate_view"] \/ (role # ceiling))

set_role_context(ctx, args) ==
    LET c0 == Set(ctx, "Role", Role)
        a  == role_args(args)
    IN  IF users[c0["viewer"]].admin THEN clamp_role(c0, a, str_admin, ADMIN)
        ELSE IF users[c0["viewer"]].faculty THEN clamp_role(c0, a, str_faculty, FACULTY)
        ELSE IF c0["instructor"] THEN clamp_role(c0, a, str_instructor, INSTRUCTOR)
        ELSE Set(Set(c0, "role", STUDENT),
                 "alternate_view", c0["alternate_view"] \/ (STUDENT # STUDENT))

\* Line 123, `if not user.admin:`. The name `user` is neither a local of
\* get_context nor a module-level name, so evaluating it raises NameError;
\* lines 124-125 are never run.
user_gate(ctx, kw) ==
    IF "user" \notin ModuleNames THEN "NameError" ELSE "pass"

\* Line 118.
login_required(kw) == Get(kw, "login_required", TRUE)

\* login_gate that lets an unresolved principal through.
login_gate_open(ctx) == "pass"

\* Lines 120-121.
login_gate(ctx) ==
    IF ~Truthy(ctx["user"]) THEN "abort401" ELSE "pass"

\* standing_gate applied only when a course is in scope.
standing_gate_scoped(ctx) ==
    IF Truthy(Get(ctx, "course", None)) /\ ~(ctx["instructor"] \/ ctx["student"])
    THEN "abort403"
    ELSE "pass"

\* Line 130.
standing_gate(ctx) ==
    IF ~(ctx["instructor"] \/ ctx["student"]) THEN "abort403" ELSE "pass"

\* Lines 133-135: Role[kwargs.get('min_role', 'student').upper()] > role.
\* A Role member has no method upper; an unknown name is a KeyError.
min_role_gate(ctx, kw) ==
    LET m == Get(kw, "min_role", StrValue(str_student))
    IN  IF m.type # "str" THEN "AttributeError"
        ELSE IF Upper(m.text) \notin DOMAIN Role THEN "KeyError"
        ELSE IF Role[Upper(m.text)] > ctx["role"] THEN "abort403"
        ELSE "returned"

----------------------------------------------------------------------------
\* The requests.

UnknownEmail == Email(NumUsers + 1)

Sessions ==
    {EmptyDict} \cup {[k \in {"user_email"} |-> e] : e \in {Email(i) : i \in UserIds} \cup {UnknownEmail}}

ViewerArgs ==
    {EmptyDict} \cup {[k \in {"viewer"} |-> e] : e \in {Email(i) : i \in UserIds} \cup {UnknownEmail}}

RoleNames ==
    {str_admin,
     <<"F", "a", "c", "u", "l", "t", "y">>,
     <<"I", "N", "S", "T", "R", "U", "C", "T", "O", "R">>,
     str_student,
     <<"t", "a">>}

RoleArgs == {EmptyDict} \cup {[k \in {"role"} |-> r] : r \in RoleNames}

LoginKwargs == {EmptyDict} \cup {[k \in {"login_required"} |-> b] : b \in BOOLEAN}

UserKwargs == {EmptyDict} \cup {[k \in {"user"} |-> i] : i \in 1..(NumUsers + 1)}

MinRoles ==
    {RoleValue(r) : r \in {STUDENT, INSTRUCTOR, FACULTY, ADMIN}}
    \cup {StrValue(str_instructor), StrValue(<<"F", "A", "C", "U", "L", "T", "Y">>)}

MinRoleKwargs == {EmptyDict} \cup {[k \in {"min_role"} |-> m] : m \in MinRoles}

CourseKwargs == {EmptyDict} \cup {[k \in {"course_id"} |-> c] : c \in 1..(NumCourses + 1)}

Abort(code) ==
    /\ pc' = "done"
    /\ outcome' = code

Goto(line) ==
    /\ pc' = line
    /\ outcome' = outcome

----------------------------------------------------------------------------
\* A request arrives at an endpoint that calls context.get_context(**kwargs)
\* or routes.get_context().

Init ==
    /\ entry \in {"context", "routes"}
    /\ session \in Sessions
    /\ \E v \in ViewerArgs, r \in RoleArgs : url_args = v @@ r
    /\ IF entry = "context"
       THEN \E l \in LoginKwargs, u \in UserKwargs, m \in MinRoleKwargs, c \in CourseKwargs :
                kwargs = l @@ u @@ m @@ c
       ELSE kwargs = EmptyDict
    /\ context = EmptyDict
    /\ calls = <<>>
    /\ teaching = EmptyDict
    /\ taking = EmptyDict
    /\ pc = IF entry = "context" THEN "L116" ELSE "R17"
    /\ outcome = "running"

\* context.py line 116.
SetUserContext ==
    /\ pc = "L116"
    /\ context' = set_user_context(context, session)
    /\ calls' = Append(calls, "_set_user_context")
    /\ Goto("L118")
    /\ UNCHANGED <<entry, session, url_args, kwargs, teaching, taking>>

\* LoginRequiredCheck with lines 118-119 and 120-121 in the other order.
LoginRequiredCheck_after_gate ==
    /\ pc = "L118"
    /\ IF ~Truthy(context["user"]) THEN Abort("abort401")
       ELSE IF ~login_required(kwargs) THEN Abort("returned")
       ELSE Goto("L123")
    /\ UNCHANGED <<entry, session, url_args, kwargs, context, calls, teaching, taking>>

\* context.py lines 118-119.
LoginRequiredCheck ==
    /\ pc = "L118"
    /\ IF ~login_required(kwargs) THEN Abort("returned") ELSE Goto("L120")
    /\ UNCHANGED <<entry, session, url_args, kwargs, context, calls, teaching, taking>>

\* context.py lines 120-121.
LoginGate ==
    /\ pc = "L120"
    /\ LET g == login_gate(context)
       IN  IF g = "pass" THEN Goto("L123") ELSE Abort(g)
    /\ UNCHANGED <<entry, session, url_args, kwargs, context, calls, teaching, taking>>

\* context.py lines 123-125.
UserGate ==
    /\ pc = "L123"
    /\ LET g == user_gate(context, kwargs)
       IN  IF g = "pass" THEN Goto("L126") ELSE Abort(g)
    /\ UNCHANGED <<entry, session, url_args, kwargs, context, calls, teaching, taking>>

\* context.py line 126.
SetViewerContext ==
    /\ pc = "L126"
    /\ context' = set_viewer_context(context, url_args)
    /\ calls' = Append(calls, "_set_viewer_context")
    /\ Goto("L127")
    /\ UNCHANGED <<entry, session, url_args, kwargs, teaching, taking>>

\* context.py line 127.
SetCourseContext ==
    /\ pc = "L127"
    /\ context' = set_course_context(context, kwargs)
    /\ calls' = Append(calls, "_set_course_context")
    /\ Goto("L128")
    /\ UNCHANGED <<entry, session, url_args, kwargs, teaching, taking>>

\* context.py line 128. viewer.teaching(course) is read on the elif branch
\* only; its answer comes from the stored data.
SetInstructorContext ==
    /\ pc = "L128"
    /\ \E b \in BOOLEAN :
        /\ teaching' =
            IF ~users[context["viewer"]].admin /\ Truthy(Get(context, "course", None))
            THEN (<<context["viewer"], context["course"]>> :> b) @@ teaching
            ELSE teaching
        /\ context' = set_instructor_context(context, teaching')
    /\ calls' = Append(calls, "_set_instructor_context")
    /\ Goto("L129")
    /\ UNCHANGED <<entry, session, url_args, kwargs, taking>>

\* context.py line 129.
SetStudentContext ==
    /\ pc = "L129"
    /\ \E b \in BOOLEAN :
        /\ taking' =
            IF Truthy(Get(context, "course", None))
            THEN (<<context["viewer"], context["course"]>> :> b) @@ taking
            ELSE taking
        /\ context' = set_student_context(context, taking')
    /\ calls' = Append(calls, "_set_student_context")
    /\ Goto("L130")
    /\ UNCHANGED <<entry, session, url_args, kwargs, teaching>>

\* context.py lines 130-131.
StandingGate ==
    /\ pc = "L130"
    /\ LET g == standing_gate(context)
       IN  IF g = "pass" THEN Goto("L132") ELSE Abort(g)
    /\ UNCHANGED <<entry, session, url_args, kwargs, context, calls, teaching, taking>>

\* context.py line 132.
SetRoleContext ==
    /\ pc = "L132"
    /\ url_args' = role_args(url_args)
    /\ context' = set_role_context(context, url_args)
    /\ calls' = Append(calls, "_set_role_context")
    /\ Goto("L133")
    /\ UNCHANGED <<entry, session, kwargs, teaching, taking>>

\* context.py lines 133-135.
MinRoleGate ==
    /\ pc = "L133"
    /\ Abort(min_role_gate(context, kwargs))
    /\ UNCHANGED <<entry, session, url_args, kwargs, context, calls, teaching, taking>>

\* routes.py get_user, lines 11-13.
get_user(sess) == UserByEmail(SessionEmail(sess))

\* The tables routes.get_context dumps into the context; the model holds no
\* assignment, question or question file.
table_dump(ctx) ==
    Set(Set(Set(Set(Set(ctx, "users", UserIds), "courses", CourseIds),
        "assignments", {}), "questions", {}), "question_files", {})

\* routes.py get_context, lines 16-30.
RoutesGetContext ==
    /\ pc = "R17"
    /\ LET user == get_user(session)
       IN  IF ~Truthy(user)
           THEN /\ context' = EmptyDict
                /\ Abort("abort401")
           ELSE /\ context' = table_dump(Set(EmptyDict, "user", user))
                /\ Abort("returned")
    /\ UNCHANGED <<entry, session, url_args, kwargs, calls, teaching, taking>>

Next ==
    \/ SetUserContext
    \/ LoginRequiredCheck
    \/ LoginGate
    \/ UserGate
    \/ RoutesGetContext

\* The two get_context functions as they are.
Spec == Init /\ [][Next]_vars

----------------------------------------------------------------------------
\* The resolver chain of context.get_context, lines 126-135, run on a context
\* that holds a resolved principal (login is required and the session names a
\* stored user).

InitResolve ==
    /\ entry = "context"
    /\ session \in {[k \in {"user_email"} |-> Email(i)] : i \in UserIds}
    /\ \E v \in ViewerArgs, r \in RoleArgs : url_args = v @@ r
    /\ \E l \in {d \in LoginKwargs : login_required(d)},
          u \in UserKwargs, m \in MinRoleKwargs, c \in CourseKwargs :
            kwargs = l @@ u @@ m @@ c
    /\ context = set_user_context(EmptyDict, session)
    /\ calls = <<"_set_user_context">>
    /\ teaching = EmptyDict
    /\ taking = EmptyDict
    /\ pc = "L126"
    /\ outcome = "running"

NextResolve ==
    \/ SetViewerContext
    \/ SetCourseContext
    \/ SetInstructorContext
    \/ SetStudentContext
    \/ StandingGate
    \/ SetRoleContext
    \/ MinRoleGate

SpecResolve == InitResolve /\ [][NextResolve]_vars

----------------------------------------------------------------------------
\* Properties.

\* The role implied by the viewer's privilege flags and scoped standing.
TrueCeiling(ctx) ==
    IF users[ctx["viewer"]].admin THEN ADMIN
    ELSE IF users[ctx["viewer"]].faculty THEN FACULTY
    ELSE IF ctx["instructor"] THEN INSTRUCTOR
    ELSE STUDENT

\* The session names no stored user.
NoPrincipal ==
    \/ "user_email" \notin DOMAIN session
    \/ \A i \in UserIds : users[i].email # session["user_email"]

\* The 'user' permission parameter names somebody else than a non-admin principal.
WrongSpecificUser ==
    /\ ~users[context["user"]].admin
    /\ "user" \in DOMAIN kwargs
    /\ kwargs["user"] # users[context["user"]].id

Called(f) == \E i \in 1..Len(calls) : calls[i] = f

\* C1: once the viewer is resolved, a principal who is not an admin is their
\* own viewer, whatever the 'viewer' URL parameter is; only an admin
\* principal can have a viewer other than themselves.
C1_NonAdminViewerIsUser ==
    ("viewer" \in DOMAIN context /\ ~users[context["user"]].admin)
        => context["viewer"] = context["user"]

\* A non-admin names another stored user as viewer and gets a context.
C1_Witness ==
    /\ outcome = "returned"
    /\ ~users[context["user"]].admin
    /\ "viewer" \in DOMAIN url_args
    /\ UserByEmail(url_args["viewer"]) \notin {None, context["user"]}
    /\ context["viewer"] = context["user"]

\* C2: once the role is resolved it is at most the viewer's true ceiling,
\* whatever the 'role' URL parameter is.
C2_RoleAtMostCeiling ==
    "role" \in DOMAIN context => context["role"] <= TrueCeiling(context)

\* A faculty viewer who is not an admin asks for role=admin and gets FACULTY.
C2_Witness ==
    /\ "role" \in DOMAIN context
    /\ "role" \in DOMAIN url_args
    /\ Upper(url_args["role"]) = Upper(str_admin)
    /\ TrueCeiling(context) = FACULTY
    /\ context["role"] = FACULTY

\* C3: once the role is resolved, alternate_view is true exactly when the
\* viewer is not the user or the role is not the viewer's true ceiling.
C3_AlternateViewIff ==
    "role" \in DOMAIN context =>
        (context["alternate_view"] <=>
            (context["viewer"] # context["user"] \/ context["role"] # TrueCeiling(context)))

\* A returned context of an un-impersonated viewer with an honoured downgrade.
C3_Witness ==
    /\ outcome = "returned"
    /\ context["viewer"] = context["user"]
    /\ context["role"] < TrueCeiling(context)
    /\ context["alternate_view"]

\* C4: past the login gate, the request is aborted with 403 exactly when the
\* principal is not an admin and the 'user' parameter names another id;
\* otherwise it goes on to viewer resolution.
C4_SpecificUserGate ==
    (/\ entry = "context"
     /\ login_required(kwargs)
     /\ pc \notin {"L116", "L118", "L120", "L123"}
     /\ Truthy(context["user"]))
        => IF WrongSpecificUser
           THEN pc = "done" /\ outcome = "abort403"
           ELSE pc = "L126" /\ outcome = "running"

\* The Role the endpoint requires, min_role being a Role member or absent.
RequiredRole == IF "min_role" \in DOMAIN kwargs THEN kwargs["min_role"].value ELSE STUDENT

\* C5: with min_role a Role member (default STUDENT), a request that passed
\* the standing check ends in 403 exactly when the role is below min_role
\* and returns the context otherwise.
C5_MinRoleGate ==
    (/\ pc = "done"
     /\ "role" \in DOMAIN context
     /\ "min_role" \in DOMAIN kwargs => kwargs["min_role"].type = "Role")
        => outcome = (IF context["role"] < RequiredRole THEN "abort403" ELSE "returned")

\* C6: with login required and no principal, the request ends in 401 and no
\* later resolver has run or set anything.
C6_LoginGate ==
    (pc = "done" /\ login_required(kwargs) /\ NoPrincipal)
        => /\ outcome = "abort401"
           /\ DOMAIN context \subseteq {"user"}
           /\ \A i \in 1..Len(calls) : calls[i] = "_set_user_context"

\* An anonymous request with URL and permission parameters is turned away.
C6_Witness ==
    /\ outcome = "abort401"
    /\ entry = "context"
    /\ NoPrincipal
    /\ {"viewer", "role"} \subseteq DOMAIN url_args
    /\ {"user", "min_role", "course_id"} \subseteq DOMAIN kwargs
    /\ context["user"] = None

\* C7: a principal who passes the specific-user gate is not aborted by the
\* standing check merely because no course is in scope.
C7_ScopelessNotAborted ==
    (/\ pc = "done"
     /\ "student" \in DOMAIN context
     /\ ~Truthy(Get(context, "course", None))
     /\ ~WrongSpecificUser)
        => ~(outcome = "abort403" /\ "role" \notin DOMAIN context)

\* C8: a viewer who is neither instructor nor student is aborted with 403 at
\* the standing check, and the role is resolved only after that check passed.
C8_StandingBeforeRole ==
    /\ ("student" \in DOMAIN context /\ ~context["instructor"] /\ ~context["student"])
        => /\ "role" \notin DOMAIN context
           /\ ~Called("_set_role_context")
           /\ pc \in {"L130", "done"}
           /\ pc = "done" => outcome = "abort403"
    /\ ("role" \in DOMAIN context \/ Called("_set_role_context"))
        => /\ {"instructor", "student"} \subseteq DOMAIN context
           /\ context["instructor"] \/ context["student"]

\* A viewer without standing is aborted although a role and a minimum role
\* were asked for.
C8_Witness ==
    /\ outcome = "abort403"
    /\ ~context["instructor"] /\ ~context["student"]
    /\ "role" \in DOMAIN url_args
    /\ "min_role" \in DOMAIN kwargs
    /\ "role" \notin DOMAIN context

\* C9: instructor is true for an admin viewer, else viewer.teaching(course)
\* with a course in scope, else false; student is viewer.taking(course) with
\* a course in scope, else false, admin or not; an admin viewer is never
\* aborted by the standing check.
C9_Standing ==
    "student" \in DOMAIN context =>
        LET viewer == context["viewer"]
            course == Get(context, "course", None)
        IN  /\ context["instructor"] =
                (\/ users[viewer].admin
                 \/ Truthy(course) /\ teaching[<<viewer, course>>])
            /\ context["student"] = (Truthy(course) /\ taking[<<viewer, course>>])
            /\ (users[viewer].admin /\ pc = "done" /\ outcome = "abort403")
                => "role" \in DOMAIN context

\* An admin viewer not taking the course in scope passes the standing check
\* as instructor and not as student.
C9_Witness ==
    /\ pc = "L132"
    /\ users[context["viewer"]].admin
    /\ Truthy(Get(context, "course", None))
    /\ ~taking[<<context["viewer"], context["course"]>>]
    /\ context["instructor"]
    /\ ~context["student"]

\* C10: with login_required = False the request never aborts, and it returns
\* a context that holds 'user' alone, no other resolver having run.
C10_LoginNotRequired ==
    (entry = "context" /\ ~login_required(kwargs))
        => /\ outcome \in {"running", "returned"}
           /\ pc = "done" =>
                /\ outcome = "returned"
                /\ DOMAIN context = {"user"}
                /\ calls = <<"_set_user_context">>

\* A logged-in principal on an endpoint that does not require login, with
\* permission and URL parameters supplied.
C10_Witness ==
    /\ outcome = "returned"
    /\ entry = "context"
    /\ ~login_required(kwargs)
    /\ Truthy(context["user"])
    /\ {"user", "min_role"} \subseteq DOMAIN kwargs
    /\ {"viewer", "role"} \subseteq DOMAIN url_args

====
